---- MODULE Spec2Model ----
\* Live session manager of MedJournee (routes/live_translation.py): the
\* in-memory session maps, add_segment with its deferred redaction task,
\* end_session with its two await points (summarization, journal persistence),
\* the HTTP routes and the WebSocket handler that call them.
\*
\* The handlers are coroutines on one asyncio event loop: a handler runs
\* without interruption from one await to the next, so every action below is
\* the code between two consecutive awaits of one coroutine.
EXTENDS Integers, Sequences, FiniteSets, TLC

\* ---------------------------------------------------------------- bounds
\* add_segment calls accepted over a run (HTTP and WebSocket together)
MaxSegments == 2
\* POST /end-live-session requests over a run (the WebSocket adds one more call)
MaxHttpEnds == 1
\* the clock stops advancing here
MaxTime == 10
\* seconds the clock advances in one step
TickSeconds == 10
\* add_segment calls accepted over a run of LiveSpec
MaxLiveSegments == 1
\* max_wait_time of _wait_for_completion, seconds (300 by default in the code)
MaxWaitTime == 20
\* seconds one status request to the diarization service takes, at most
MaxLatency == 2
\* utterances, and words, in one diarization response, at most
MaxEntries == 2
\* enrolled profiles of one family, at most
MaxProfiles == 3
\* segments in one request to /enhanced-live-diarize/, at most
MaxResolved == 2
\* diarized segments of one recording, at most
MaxDiarized == 2
\* instant transcripts of one recording, at most
MaxTranscripts == 3

\* enrollment clips are at most this long, seconds
MaxClipSeconds == 17
\* active rows of voice_enrollments of one family, at most
MaxRecords == 2
\* segments in one response of a diarize handler, at most
MaxCoerced == 2

\* ------------------------------------------------------- program constants
\* asyncio.sleep(10) of the redaction task
SleepSeconds == 10

\* asyncio.sleep(2) between two status requests
PollInterval == 2

\* self.enrollment_threshold = 0.80, in ten-thousandths
EnrollmentThreshold == 8000
\* the 0.70 of the role assignment (if ... confidence >= 0.70), in
\* ten-thousandths
AcceptThreshold == 7000

\* librosa.load(audio_path, sr=16000, mono=True)
SampleRate == 16000
\* samples of the full recording when it loads: 2 seconds
AudioSamples == 32000

\* duration < 15.0, in half seconds
MinClipHalfSeconds == 30

\* rms_energy < 0.001, in ten-thousandths
NoiseFloor == 10

\* segment_duration = 3.0, in half seconds
WindowHalfSeconds == 6

\* range(0, ..., 2): the stride of the windows, seconds
Stride == 2

\* len(embeddings) >= 5
MinEmbeddings == 5

\* uuid4 session ids; one id is enough, sessions share nothing but the maps
SessionIds == {"s1"}

\* a Python None / an absent dict key, and a present value
None == <<>>
Some(x) == <<x>>
Absent == "<absent>"
DeletedMarker == "[DELETED FOR PRIVACY]"

\* what a client sends as one segment: speaker, text, confidence (percent).
\* add_segment, end_session and the redaction task never look into these
\* fields, so one value stands for all of them
SegmentInputs ==
    { [speaker |-> "SPEAKER_2", text |-> "hi doctor", confidence |-> 95] }

\* confidence_score values of _calculate_confidence (percent), two of them
ConfidenceScores == {50, 100}

Terminal == {"completed", "journal_failed", "error"}

VARIABLES
    sessions,            \* LiveSessionManager.sessions: id -> session dict
    active_sessions,     \* ids registered in the global active_sessions
    completed_sessions,  \* ids registered in the global completed_sessions
    tasks,               \* redaction tasks created and not yet run
    calls,               \* end_session coroutines suspended at an await
    background,          \* per session id, cleanup_session_data tasks not yet run
    ws,                  \* position of the WebSocket handler
    now,                 \* datetime.now(), seconds
    nSeg,                \* number of segments accepted so far (segment identity)
    nHttp,               \* number of POST /end-live-session requests so far
    nCalls,              \* number of end_session calls so far (call identity)
    summCalls,           \* per session id, calls of generate_medical_journal_entry
    accepted,            \* per session id, the segments add_segment stored, in order
    last,                \* the step just taken (history variable)
    poller,              \* CloudSpeakerService._wait_for_completion, one call
    parser,              \* CloudSpeakerService._parse_speaker_segments, one call
    matcher,             \* VoiceEnrollmentService.identify_enrolled_speaker, one call
    resolver,            \* the assignment loop of enhanced_live_diarize, one request
    finalizer,           \* finalize_with_diarization, one call
    enroller,            \* VoiceEnrollmentService.enroll_family_voice, one call
    lookup,              \* _get_family_profiles and the match that follows it
    coercer,             \* the response formatting of the diarize handlers
    translator,          \* one request on a path to translate_text
    diarizer             \* finalize_with_diarization with its diarization call

\* the session manager's variables
liveVars == <<sessions, active_sessions, completed_sessions, tasks, calls,
              background, ws, now, nSeg, nHttp, nCalls, summCalls, accepted, last>>

\* the variables of the diarization pipeline (services/, combined_translation)
pipelineVars == <<poller, parser, matcher, resolver, finalizer>>

\* the variables of enrollment, of the profile store and of the routes
serviceVars == <<enroller, lookup, coercer, translator, diarizer>>

vars == <<liveVars, pipelineVars, serviceVars>>

\* the step just taken, when it is a redaction task running (the index and
\* the segment it was created for, whether it changed nothing) or an
\* end_session call returning (how it ended, the confidence score it got)
Step(op, idx, seg, noop, outcome, confidence) ==
    [op |-> op, idx |-> idx, seg |-> seg, noop |-> noop, outcome |-> outcome,
     confidence |-> confidence]

\* a step no property asks about
NoStep == Step("other", 0, 0, FALSE, "none", 0)

StatusOf(s) == IF s \in DOMAIN sessions THEN sessions[s].status ELSE "none"

SegIds(segs) == [i \in 1..Len(segs) |-> segs[i].id]

\* a component of the diarization pipeline that has no call in progress
Idle == [pc |-> "idle"]

PipelineIdle ==
    /\ poller = Idle
    /\ parser = Idle
    /\ matcher = Idle
    /\ resolver = Idle
    /\ finalizer = Idle

ServicesIdle ==
    /\ enroller = Idle
    /\ lookup = Idle
    /\ coercer = Idle
    /\ translator = Idle
    /\ diarizer = Idle

\* the session manager after construction
SessionsInit ==
    /\ sessions = << >>
    /\ active_sessions = {}
    /\ completed_sessions = {}
    /\ tasks = {}
    /\ calls = {}
    /\ background = [s \in SessionIds |-> 0]
    /\ ws = "idle"
    /\ now = 0
    /\ nSeg = 0
    /\ nHttp = 0
    /\ nCalls = 0
    /\ summCalls = [s \in SessionIds |-> 0]
    /\ accepted = [s \in SessionIds |-> << >>]
    /\ last = NoStep

Init == SessionsInit /\ PipelineIdle /\ ServicesIdle

\* ------------------------------------------------------------ create_session
NewSession ==
    [status |-> "active",
     speaker_segments |-> << >>,
     last_activity |-> now,
     journal_entry |-> None,
     confidence_score |-> None,
     raw_data_deleted |-> FALSE]

StartLiveSession ==
    \E s \in SessionIds :
        /\ s \notin DOMAIN sessions
        /\ sessions' = [x \in DOMAIN sessions \cup {s} |->
                           IF x = s THEN NewSession ELSE sessions[x]]
        /\ active_sessions' = active_sessions \cup {s}
        /\ last' = NoStep
        /\ UNCHANGED <<pipelineVars, serviceVars, completed_sessions, tasks, calls, background, ws, now, nSeg,
                       nHttp, nCalls, summCalls, accepted>>

\* --------------------------------------------------------------- add_segment
\* the dict stored for a segment; nSeg + 1 is its identity
NewSegment(in) ==
    [id |-> nSeg + 1, speaker |-> in.speaker, text |-> in.text,
     confidence |-> in.confidence, original_text |-> Absent,
     raw_text_deleted |-> FALSE]

\* add_segment accepts the segment iff the session id is known
AddAccepts(s) == s \in DOMAIN sessions

\* mutant: the index is taken as the length after the append
ScheduledIndex_OffByOne(segs) == Len(segs)

\* the index handed to _schedule_segment_cleanup (0-based)
ScheduledIndex(segs) == Len(segs) - 1

\* the list after the append
AppendSegment(segs, seg) == Append(segs, seg)

AddSegment(s, in) ==
    IF AddAccepts(s)
    THEN LET segs == AppendSegment(sessions[s].speaker_segments, NewSegment(in))
         IN /\ sessions' = [sessions EXCEPT ![s].speaker_segments = segs,
                                            ![s].last_activity = now]
            /\ tasks' = tasks \cup
                  {[session_id |-> s, segment_index |-> ScheduledIndex(segs),
                    due |-> now + SleepSeconds, seg |-> nSeg + 1]}
            /\ accepted' = [accepted EXCEPT ![s] = Append(@, nSeg + 1)]
            /\ last' = NoStep
    ELSE /\ UNCHANGED <<sessions, tasks, accepted>>
         /\ last' = NoStep

\* POST /add-live-segment/{session_id}
AddLiveSegment ==
    \E s \in SessionIds, in \in SegmentInputs :
        /\ nSeg < MaxSegments
        /\ AddSegment(s, in)
        /\ nSeg' = nSeg + 1
        /\ UNCHANGED <<pipelineVars, serviceVars, active_sessions, completed_sessions, calls, background, ws,
                       now, nHttp, nCalls, summCalls>>

\* ------------------------------------------------------------ redaction task
\* the segment list after the task ran on it
RedactSegments(segs, idx) ==
    [i \in 1..Len(segs) |->
        IF i = idx + 1
        THEN [segs[i] EXCEPT !.raw_text_deleted = TRUE,
                             !.original_text = DeletedMarker]
        ELSE segs[i]]

\* mutant: the privacy flag is set on the session, outside the index check
CleanupEffect_FlagsSession(sess, idx) ==
    IF idx < Len(sess.speaker_segments)
    THEN [sess EXCEPT !.speaker_segments = RedactSegments(@, idx)]
    ELSE [sess EXCEPT !.raw_data_deleted = TRUE]

\* lines 62-66: what the task does to its session once it found it
CleanupEffect(sess, idx) ==
    IF idx < Len(sess.speaker_segments)
    THEN [sess EXCEPT !.speaker_segments = RedactSegments(@, idx)]
    ELSE sess

\* the task wakes up after its sleep; a missing session or index, or any
\* exception, ends it silently (lines 60-68)
RunCleanupTask ==
    \E t \in tasks :
        /\ now >= t.due
        /\ tasks' = tasks \ {t}
        /\ IF t.session_id \in DOMAIN sessions
           THEN sessions' = [sessions EXCEPT ![t.session_id] =
                                CleanupEffect(@, t.segment_index)]
           ELSE UNCHANGED sessions
        /\ last' = Step("redact", t.segment_index, t.seg, sessions' = sessions,
                        "none", 0)
        /\ UNCHANGED <<pipelineVars, serviceVars, active_sessions, completed_sessions, calls, background,
                       ws, now, nSeg, nHttp, nCalls, summCalls, accepted>>

\* --------------------------------------------------------------- end_session
\* end_session goes past its first check iff the session id is known
EndAccepts(s) == s \in DOMAIN sessions

\* an end_session coroutine suspended at an await; handoff is the segment
\* list generate_medical_journal_entry read when it was called, joined the
\* segments found in the list beside those when the journal came back
NewCall(caller, s) ==
    [id |-> nCalls + 1, caller |-> caller, session_id |-> s,
     pc |-> "await_journal", before |-> StatusOf(s),
     handoff |-> SegIds(sessions[s].speaker_segments), joined |-> {}]

\* the segments of the session that were not handed to the summarization
Unsummarized(call) ==
    {sessions[call.session_id].speaker_segments[i].id :
        i \in 1..Len(sessions[call.session_id].speaker_segments)}
    \ {call.handoff[i] : i \in 1..Len(call.handoff)}

\* lines 74-92: the check, status := processing_journal, and the call of
\* generate_medical_journal_entry, which reads the segment list before its
\* first await (ai_journal_service.py:85)
EndSessionBegin(s, caller) ==
    /\ nCalls' = nCalls + 1
    /\ IF EndAccepts(s)
       THEN /\ sessions' = [sessions EXCEPT ![s].status = "processing_journal"]
            /\ calls' = calls \cup {NewCall(caller, s)}
            /\ summCalls' = [summCalls EXCEPT ![s] = @ + 1]
            /\ last' = NoStep
       ELSE /\ UNCHANGED <<sessions, calls, summCalls>>
            /\ last' = NoStep

\* lines 94-95: the journal came back with success
StoreJournal(sess, k) == [sess EXCEPT !.journal_entry = Some(k)]

\* lines 121-122
FailJournal(sess) == [sess EXCEPT !.status = "journal_failed"]

\* lines 129-130
ErrorSession(sess) == [sess EXCEPT !.status = "error"]

\* mutant: the raw segment list is not purged
CompleteSession_KeepsSegments(sess, c) ==
    [sess EXCEPT !.confidence_score = Some(c), !.status = "completed"]

\* lines 106-113, after create_journal_entry returned
CompleteSession(sess, c) ==
    [sess EXCEPT !.confidence_score = Some(c),
                 !.status = "completed",
                 !.speaker_segments = << >>]

\* what end_session's caller does with the result: the HTTP route schedules
\* cleanup_session_data when the result is a success (lines 209-211)
AfterEnd(call, success) ==
    IF call.caller = "http" /\ success
    THEN background' = [background EXCEPT ![call.session_id] = @ + 1]
    ELSE UNCHANGED background

Returned(outcome, c) == Step("end_return", 0, 0, FALSE, outcome, c)

\* generate_medical_journal_entry returns to end_session (or raises into it);
\* with record set, the call also notes the segments that joined the list
\* during the await
JournalReturnsStep(record) ==
    \E call \in calls, outcome \in {"success", "failure", "raise"} :
        LET s == call.session_id
        IN  /\ call.pc = "await_journal"
            /\ CASE outcome = "success" ->
                      /\ sessions' = [sessions EXCEPT ![s] = StoreJournal(@, call.id)]
                      /\ calls' = (calls \ {call}) \cup
                                     {[call EXCEPT !.pc = "await_db",
                                                   !.joined = IF record
                                                              THEN Unsummarized(call)
                                                              ELSE {}]}
                      /\ last' = NoStep
                      /\ UNCHANGED background
                 [] outcome = "failure" ->
                      /\ sessions' = [sessions EXCEPT ![s] = FailJournal(@)]
                      /\ calls' = calls \ {call}
                      /\ last' = Returned("journal_failed", 0)
                      /\ AfterEnd(call, FALSE)
                 [] OTHER ->
                      /\ sessions' = [sessions EXCEPT ![s] = ErrorSession(@)]
                      /\ calls' = calls \ {call}
                      /\ last' = Returned("journal_raised", 0)
                      /\ AfterEnd(call, FALSE)
            /\ UNCHANGED <<pipelineVars, serviceVars, active_sessions, completed_sessions, tasks, ws, now,
                           nSeg, nHttp, nCalls, summCalls, accepted>>

JournalReturns == JournalReturnsStep(FALSE)

JournalReturnsJoined == JournalReturnsStep(TRUE)

\* database_service.create_journal_entry returns to end_session (or raises);
\* c is journal_result["confidence_score"]
DbReturns ==
    \E call \in calls, ok \in BOOLEAN, c \in ConfidenceScores :
        LET s == call.session_id
        IN  /\ call.pc = "await_db"
            /\ ~ok => c = 50
            /\ calls' = calls \ {call}
            /\ IF ok
               THEN /\ sessions' = [sessions EXCEPT ![s] = CompleteSession(@, c)]
                    /\ completed_sessions' = completed_sessions \cup {s}
                    /\ last' = Returned("completed", c)
                    /\ AfterEnd(call, TRUE)
               ELSE /\ sessions' = [sessions EXCEPT ![s] = ErrorSession(@)]
                    /\ UNCHANGED completed_sessions
                    /\ last' = Returned("db_raised", 0)
                    /\ AfterEnd(call, FALSE)
            /\ UNCHANGED <<pipelineVars, serviceVars, active_sessions, tasks, ws, now, nSeg, nHttp, nCalls,
                           summCalls, accepted>>

\* POST /end-live-session/{session_id}, up to the first await of end_session
EndLiveSession ==
    \E s \in SessionIds :
        /\ nHttp < MaxHttpEnds
        /\ nHttp' = nHttp + 1
        /\ EndSessionBegin(s, "http")
        /\ UNCHANGED <<pipelineVars, serviceVars, active_sessions, completed_sessions, tasks, ws, now, nSeg,
                       background, accepted>>

\* cleanup_session_data, the background task of a successful HTTP end
CleanupSessionData ==
    \E s \in SessionIds :
        /\ background[s] > 0
        /\ background' = [background EXCEPT ![s] = @ - 1]
        /\ active_sessions' = active_sessions \ {s}
        /\ IF s \in completed_sessions
           THEN sessions' = [sessions EXCEPT ![s].speaker_segments = << >>,
                                             ![s].raw_data_deleted = TRUE]
           ELSE UNCHANGED sessions
        /\ last' = NoStep
        /\ UNCHANGED <<pipelineVars, serviceVars, completed_sessions, tasks, calls, ws, now, nSeg, nHttp,
                       nCalls, summCalls, accepted>>

\* ------------------------------------------------- websocket_live_journal
\* the session id of the WebSocket path
WsSession == "s1"

WsAccept ==
    /\ ws = "idle"
    /\ ws' = "receiving"
    /\ last' = NoStep
    /\ UNCHANGED <<pipelineVars, serviceVars, sessions, active_sessions, completed_sessions, tasks, calls,
                   background, now, nSeg, nHttp, nCalls, summCalls, accepted>>

\* message of type audio_segment
WsAudioSegment ==
    \E in \in SegmentInputs :
        /\ ws = "receiving"
        /\ nSeg < MaxSegments
        /\ AddSegment(WsSession, in)
        /\ nSeg' = nSeg + 1
        /\ UNCHANGED <<pipelineVars, serviceVars, active_sessions, completed_sessions, calls, background, ws,
                       now, nHttp, nCalls, summCalls>>

\* message of type end_session; the handler leaves its loop when the call is done
WsEndSessionMessage ==
    /\ ws = "receiving"
    /\ ws' = "ending"
    /\ EndSessionBegin(WsSession, "ws_message")
    /\ UNCHANGED <<pipelineVars, serviceVars, active_sessions, completed_sessions, tasks, background, now,
                   nSeg, nHttp, accepted>>

\* the client goes away: receive_json will raise WebSocketDisconnect
WsClientDisconnect ==
    /\ ws = "receiving"
    /\ ws' = "disconnected"
    /\ last' = NoStep
    /\ UNCHANGED <<pipelineVars, serviceVars, sessions, active_sessions, completed_sessions, tasks, calls,
                   background, now, nSeg, nHttp, nCalls, summCalls, accepted>>

\* mutant: the disconnect is only logged
OnDisconnect_OnlyLogs(s) ==
    /\ UNCHANGED <<sessions, calls, summCalls, nCalls>>
    /\ last' = NoStep

\* what the except WebSocketDisconnect branch does, up to its first await
OnDisconnect(s) == EndSessionBegin(s, "ws_disconnect")

WsOnDisconnect ==
    /\ ws = "disconnected"
    /\ ws' = "closing"
    /\ OnDisconnect(WsSession)
    /\ UNCHANGED <<pipelineVars, serviceVars, active_sessions, completed_sessions, tasks, background, now,
                   nSeg, nHttp, accepted>>

\* --------------------------------------------------------------------- clock
Tick ==
    /\ now + TickSeconds <= MaxTime
    /\ now' = now + TickSeconds
    /\ last' = NoStep
    /\ UNCHANGED <<pipelineVars, serviceVars, sessions, active_sessions, completed_sessions, tasks, calls,
                   background, ws, nSeg, nHttp, nCalls, summCalls, accepted>>

Next ==
    \/ StartLiveSession
    \/ AddLiveSegment
    \/ RunCleanupTask
    \/ EndLiveSession
    \/ JournalReturns
    \/ DbReturns
    \/ CleanupSessionData
    \/ WsAccept
    \/ WsAudioSegment
    \/ WsEndSessionMessage
    \/ WsClientDisconnect
    \/ WsOnDisconnect
    \/ Tick

Spec == Init /\ [][Next]_vars

\* The same program, each end_session call noting the segments that joined
\* the list while it awaited the summarization.
JoinedNext ==
    \/ StartLiveSession
    \/ AddLiveSegment
    \/ RunCleanupTask
    \/ EndLiveSession
    \/ JournalReturnsJoined
    \/ DbReturns
    \/ CleanupSessionData
    \/ WsAccept
    \/ WsAudioSegment
    \/ WsEndSessionMessage
    \/ WsClientDisconnect
    \/ WsOnDisconnect
    \/ Tick

JoinedSpec == Init /\ [][JoinedNext]_vars

\* The same program with fewer segments, for the properties of end_session
\* that need fairness: the segments play no part in what end_session does to
\* the status.
LiveInit == Init

LiveNext ==
    \/ StartLiveSession
    \/ (nSeg < MaxLiveSegments /\ AddLiveSegment)
    \/ RunCleanupTask
    \/ EndLiveSession
    \/ JournalReturns
    \/ DbReturns
    \/ CleanupSessionData
    \/ WsAccept
    \/ (nSeg < MaxLiveSegments /\ WsAudioSegment)
    \/ WsEndSessionMessage
    \/ WsClientDisconnect
    \/ WsOnDisconnect
    \/ Tick

\* the event loop resumes a coroutine whose awaitable is ready: the handler
\* of WebSocketDisconnect runs once receive_json has raised
LiveSpec == LiveInit /\ [][LiveNext]_vars /\ WF_vars(WsOnDisconnect)

\* ------------------------------------------- _wait_for_completion (poller)
\* One call of _wait_for_completion. elapsed is time.time() - start_time,
\* polls counts the status requests made, status is the last answer.
\* The coroutine is suspended in run_in_executor (pc "request") and in
\* asyncio.sleep (pc "sleep"); pc "loop" is the test of the while loop.
PollDone == {"returned", "raised_error", "raised_status", "raised_timeout"}

\* what one GET /transcript/{id} can answer: HTTP 200 with a job status, or
\* another HTTP status
StatusResponses == {"completed", "error", "queued", "processing", "http_500"}

PollStart == [pc |-> "loop", elapsed |-> 0, polls |-> 0, status |-> "none"]

\* while time.time() - start_time < max_wait_time (line 135), and the raise
\* after the loop (line 160)
LoopAdmits(elapsed) == elapsed < MaxWaitTime

PollLoopTest ==
    /\ poller.pc = "loop"
    /\ poller' = [poller EXCEPT
                    !.pc = IF LoopAdmits(poller.elapsed) THEN "request"
                           ELSE "raised_timeout"]
    /\ UNCHANGED <<liveVars, serviceVars, parser, matcher, resolver, finalizer>>

\* the status request returns after d seconds with answer r (lines 137-158)
PollStatusResponse ==
    \E d \in 0..MaxLatency, r \in StatusResponses :
        /\ poller.pc = "request"
        /\ poller' = [pc |-> CASE r = "http_500" -> "raised_status"
                               [] r = "completed" -> "returned"
                               [] r = "error" -> "raised_error"
                               [] OTHER -> "sleep",
                      elapsed |-> poller.elapsed + d,
                      polls |-> poller.polls + 1,
                      status |-> r]
        /\ UNCHANGED <<liveVars, serviceVars, parser, matcher, resolver, finalizer>>

\* await asyncio.sleep(2) returns (line 156)
PollSleep ==
    /\ poller.pc = "sleep"
    /\ poller' = [poller EXCEPT !.pc = "loop", !.elapsed = @ + PollInterval]
    /\ UNCHANGED <<liveVars, serviceVars, parser, matcher, resolver, finalizer>>

PollInit ==
    /\ SessionsInit
    /\ poller = PollStart
    /\ parser = Idle
    /\ matcher = Idle
    /\ resolver = Idle
    /\ finalizer = Idle
    /\ ServicesIdle

PollNext == PollLoopTest \/ PollStatusResponse \/ PollSleep

\* the event loop resumes the coroutine when its awaitable is done, and the
\* diarization service answers every status request
PollSpec == PollInit /\ [][PollNext]_vars /\ WF_vars(PollNext)

\* ------------------------------------------ _parse_speaker_segments (parser)
\* dict.get(key, default): an optional key is None or Some(value)
Get(x, default) == IF x = None THEN default ELSE x[1]

\* str.strip() on the strings used here
Strip(s) ==
    CASE s = " " -> ""
      [] s = " Hi doctor " -> "Hi doctor"
      [] OTHER -> s

\* a Python number of seconds, as a fraction: x / 1000 is Ratio(x, 1000), the
\* literals 0 and 30 are Ratio(0, 1) and Ratio(30, 1)
Ratio(n, d) == [num |-> n, den |-> d]
RatioLeq(a, b) == a.num * b.den <= b.num * a.den
RatioEq(a, b) == a.num * b.den = b.num * a.den

\* the speaker letters of the service, one letter outside A..D, or no letter
SpeakerLetters == {None, Some("A"), Some("B"), Some("C"), Some("D"), Some("E")}

\* text, start (ms), end (ms) and confidence (percent) of an utterance or a
\* word: complete entries, a blank text, and entries missing some or all of
\* the optional fields. Every entry with both a start and an end has
\* start <= end.
EntryShapes ==
    { [text |-> Some("Hello"), start |-> Some(0), end |-> Some(1000),
       confidence |-> Some(90)],
      [text |-> Some(" Hi doctor "), start |-> Some(1000), end |-> Some(2000),
       confidence |-> None],
      [text |-> Some(" "), start |-> Some(0), end |-> Some(1000),
       confidence |-> None],
      [text |-> None, start |-> None, end |-> None, confidence |-> None],
      [text |-> Some("Hello"), start |-> None, end |-> None, confidence |-> None],
      [text |-> Some("Hello"), start |-> Some(2000), end |-> None,
       confidence |-> None],
      [text |-> Some("Hello"), start |-> None, end |-> Some(2000),
       confidence |-> Some(90)],
      [text |-> Some("Hello"), start |-> Some(0), end |-> Some(0),
       confidence |-> None] }

Entry(l, e) ==
    [speaker |-> l, text |-> e.text, start |-> e.start, end |-> e.end,
     confidence |-> e.confidence]

\* every shape said by A and by B, and one complete entry for every letter
Entries ==
    { Entry(l, e) : l \in {Some("A"), Some("B")}, e \in EntryShapes }
    \cup
    { Entry(l, [text |-> Some("Hello"), start |-> Some(0), end |-> Some(1000),
                confidence |-> Some(90)]) : l \in SpeakerLetters }

EntryLists == UNION { [1..n -> Entries] : n \in 0..MaxEntries }

\* the "text" of a response: missing, blank, or the transcript
ResponseTexts == {None, Some(" "), Some("Hello Hi doctor")}

OneWord ==
    [speaker |-> Some("B"), text |-> Some("Hello"), start |-> Some(0),
     end |-> Some(1000), confidence |-> Some(90)]

\* responses with a transcript carry every list; responses whose text is
\* missing or blank are returned from before the lists are read, and carry
\* the lists of at most one entry
ListsBeside(x) ==
    IF x = Some("Hello Hi doctor") THEN EntryLists
    ELSE { l \in EntryLists : Len(l) <= 1 }

\* the responses parsed: an utterance list beside no, an empty or a one-word
\* word list, and a word list beside no or an empty utterance list
Responses ==
    UNION { { [text |-> x, utterances |-> Some(u), words |-> w] :
                u \in ListsBeside(x),
                w \in {None, Some(<< >>), Some(<<OneWord>>)} }
            \cup
            { [text |-> x, utterances |-> u, words |-> Some(w)] :
                u \in {None, Some(<< >>)}, w \in ListsBeside(x) } :
            x \in ResponseTexts }

\* speaker_mapping.get(speaker_letter, "1") after .get("speaker", "A")
SpeakerNumber_Shifted(letter) ==
    CASE letter = "A" -> "1" [] letter = "B" -> "2" [] letter = "C" -> "4"
      [] letter = "D" -> "4" [] OTHER -> "1"

SpeakerNumber(letter) ==
    CASE letter = "A" -> "1" [] letter = "B" -> "2" [] letter = "C" -> "3"
      [] letter = "D" -> "4" [] OTHER -> "1"

\* f"SPEAKER_{speaker_number}"
SpeakerLabel(number) ==
    CASE number = "1" -> "SPEAKER_1" [] number = "2" -> "SPEAKER_2"
      [] number = "3" -> "SPEAKER_3" [] OTHER -> "SPEAKER_4"

\* the dict appended for one utterance (lines 184-195)
UtteranceSegment(u) ==
    [speaker |-> SpeakerLabel(SpeakerNumber(Get(u.speaker, "A"))),
     text |-> Strip(u.text[1]),
     start_time |-> Ratio(Get(u.start, 0), 1000),
     end_time |-> Ratio(Get(u.end, 1000), 1000),
     confidence |-> Get(u.confidence, 95),
     method |-> "cloud_diarization"]

\* not utterance.get("text", "").strip() (line 180)
BlankText(u) == Strip(Get(u.text, "")) = ""

KeepsUtterance(u) == ~BlankText(u)

\* the loop over the utterances (lines 179-197)
UtteranceSegments(utterances) ==
    LET kept == SelectSeq(utterances, KeepsUtterance)
    IN  [i \in 1..Len(kept) |-> UtteranceSegment(kept[i])]

\* x or default
OrDefault(x, default) == IF x = None \/ x = Some(0) THEN default ELSE x[1]

\* the dict appended for a group of words (lines 236-243, 256-263); the text
\* " ".join(current_text) is kept as the sequence of the words joined
WordGroupSegment(cur) ==
    [speaker |-> cur.speaker[1],
     text |-> cur.text,
     start_time |-> Ratio(OrDefault(cur.start, 0), 1000),
     end_time |-> Ratio(OrDefault(cur.end, 1000), 1000),
     confidence |-> 90,
     method |-> "word_level_diarization"]

\* if current_text and current_speaker: segments.append(...)
Flush(segments, cur) ==
    IF cur.text # << >> /\ cur.speaker # None
    THEN Append(segments, WordGroupSegment(cur))
    ELSE segments

\* current_speaker, current_text, current_start, current_end before the loop
NoGroup == [speaker |-> None, text |-> << >>, start |-> None, end |-> None]

\* the loop over the words from word i on (lines 227-252), then the final
\* segment (lines 255-263)
RECURSIVE GroupWords(_, _, _, _)
GroupWords(words, i, segments, cur) ==
    IF i > Len(words)
    THEN Flush(segments, cur)
    ELSE LET word == words[i]
             speaker == SpeakerLabel(SpeakerNumber(Get(word.speaker, "A")))
         IN  IF Some(speaker) # cur.speaker
             THEN GroupWords(words, i + 1, Flush(segments, cur),
                             [speaker |-> Some(speaker),
                              text |-> <<Get(word.text, "")>>,
                              start |-> Some(Get(word.start, 0)),
                              end |-> Some(Get(word.end, 1000))])
             ELSE GroupWords(words, i + 1, segments,
                             [cur EXCEPT
                                !.text = Append(@, Get(word.text, "")),
                                !.end = IF word.end = None THEN @ ELSE word.end])

\* _parse_words_to_segments
ParseWordsToSegments(response) ==
    LET words == Get(response.words, << >>)
    IN  IF words = << >> THEN << >> ELSE GroupWords(words, 1, << >>, NoGroup)

\* the single segment of the last resort (lines 206-213)
FallbackSegment(full_text) ==
    [speaker |-> "SPEAKER_1",
     text |-> full_text,
     start_time |-> Ratio(0, 1),
     end_time |-> Ratio(30, 1),
     confidence |-> 80,
     method |-> "no_diarization_fallback"]

\* "key" in transcript_result and transcript_result["key"]
Populated(list) == list # None /\ list[1] # << >>

\* which of the three sources the parser uses, words before utterances
SegmentSource_WordsFirst(response) ==
    CASE Populated(response.words) -> "words"
      [] Populated(response.utterances) -> "utterances"
      [] OTHER -> "text"

\* which of the three sources the parser uses (lines 175, 200, 204)
SegmentSource(response) ==
    CASE Populated(response.utterances) -> "utterances"
      [] Populated(response.words) -> "words"
      [] OTHER -> "text"

\* _parse_speaker_segments
ParseSpeakerSegments(response) ==
    LET full_text == Strip(Get(response.text, ""))
        source == SegmentSource(response)
    IN  IF full_text = "" THEN << >>
        ELSE CASE source = "utterances" -> UtteranceSegments(response.utterances[1])
               [] source = "words" -> ParseWordsToSegments(response)
               [] OTHER -> <<FallbackSegment(full_text)>>

\* one call of the parser on a diarization response
ParserStart(response) == [pc |-> "parse", response |-> response, segments |-> << >>]

ParseResponse ==
    /\ parser.pc = "parse"
    /\ parser' = [parser EXCEPT !.pc = "done",
                                !.segments = ParseSpeakerSegments(parser.response)]
    /\ UNCHANGED <<liveVars, serviceVars, poller, matcher, resolver, finalizer>>

\* ------------------------------------------ identify_enrolled_speaker (matcher)
\* similarities and confidences are in ten-thousandths: 7000 is 0.70
Similarities == {0, 6999, 7000, 7999, 8000, 9500}

SpeakerNames == {"kris", "mai"}

\* an enrolled profile as the matching loop sees it: its speaker_name and what
\* _calculate_voice_similarity returns for it and the candidate embedding
Profiles == [speaker_name : SpeakerNames, similarity : Similarities]

ProfileLists == UNION { [1..n -> Profiles] : n \in 0..MaxProfiles }

\* what the audio gives before the loop: an embedding, an empty array, no
\* features (too quiet), or an exception
AudioOutcomes == {"embedding", "empty", "no_features", "error"}

\* audio that gives an embedding meets every profile list; the other
\* outcomes return before the loop, and meet the lists of at most one profile
ProfileListsFor(audio) ==
    IF audio = "embedding" THEN ProfileLists
    ELSE { ps \in ProfileLists : Len(ps) <= 1 }

\* the result tuple (name or None, similarity)
MatchResult(name, similarity) == [name |-> name, similarity |-> similarity]

\* if similarity > best_similarity, taking an equal similarity too
Improves_NotStrict(similarity, best_similarity) == similarity >= best_similarity

\* if similarity > best_similarity (line 369, first half)
Improves(similarity, best_similarity) == similarity > best_similarity

\* and similarity >= self.enrollment_threshold (line 369, second half)
Accepts(similarity) == similarity >= EnrollmentThreshold

\* the loop over the profiles from profile i on (lines 364-376)
RECURSIVE BestMatch(_, _, _)
BestMatch(profiles, i, best) ==
    IF i > Len(profiles)
    THEN best
    ELSE LET similarity == profiles[i].similarity
         IN  IF Improves(similarity, best.similarity) /\ Accepts(similarity)
             THEN BestMatch(profiles, i + 1,
                            MatchResult(Some(profiles[i].speaker_name), similarity))
             ELSE BestMatch(profiles, i + 1, best)

\* identify_enrolled_speaker
IdentifyEnrolledSpeaker(audio, profiles) ==
    IF audio # "embedding" \/ profiles = << >>
    THEN MatchResult(None, 0)
    ELSE BestMatch(profiles, 1, MatchResult(None, 0))

\* one call of identify_enrolled_speaker
MatcherStart(audio, profiles) ==
    [pc |-> "match", audio |-> audio, profiles |-> profiles,
     result |-> MatchResult(None, 0)]

IdentifySpeaker ==
    /\ matcher.pc = "match"
    /\ matcher' = [matcher EXCEPT
                     !.pc = "done",
                     !.result = IdentifyEnrolledSpeaker(matcher.audio,
                                                        matcher.profiles)]
    /\ UNCHANGED <<liveVars, serviceVars, poller, parser, resolver, finalizer>>

\* ------------------------------------ enhanced_live_diarize (route resolver)
Roles == {"Healthcare Provider", "Patient/Family"}

\* the segments enhanced_speaker_processing hands to the assignment loop: a
\* cloud label or an enrolled name as speaker, and an enrollment_confidence
\* (missing when the processing fell back to the cloud segments)
RouteSegments ==
    [speaker : {"SPEAKER_1", "SPEAKER_2", "kris"},
     enrollment_confidence : {None, Some(0), Some(6999), Some(7000), Some(8500)},
     speaker_role : {None}, enrolled_speaker : {None},
     assignment_method : {None}]

RouteSegmentLists == UNION { [1..n -> RouteSegments] : n \in 1..MaxResolved }

\* if enrollment_confidence >= 0.70, taken strictly
MeetsThreshold_Strict(confidence) == confidence > AcceptThreshold

\* if enrollment_confidence >= 0.70 (line 439)
MeetsThreshold(confidence) == confidence >= AcceptThreshold

\* the assignment of one segment (lines 433-451)
AssignRole(segment) ==
    LET enrollment_confidence == Get(segment.enrollment_confidence, 0)
        enrolled_name == segment.speaker
    IN  IF MeetsThreshold(enrollment_confidence)
        THEN [segment EXCEPT !.speaker = "SPEAKER_2",
                             !.speaker_role = Some("Patient/Family"),
                             !.enrolled_speaker = Some(enrolled_name),
                             !.assignment_method = Some("voice_enrollment_match")]
        ELSE [segment EXCEPT !.speaker = "SPEAKER_1",
                             !.speaker_role = Some("Healthcare Provider"),
                             !.assignment_method =
                                 Some("unknown_voice_default_provider")]

\* one request: the segments to process and those processed so far
ResolverStart(segments) ==
    [pc |-> "assign", speaker_segments |-> segments, processed |-> << >>]

\* one turn of the loop, up to the await of translate_text or the end of the
\* loop body (lines 431-467)
AssignSegmentRole ==
    /\ resolver.pc = "assign"
    /\ LET i == Len(resolver.processed) + 1
           processed == Append(resolver.processed,
                               AssignRole(resolver.speaker_segments[i]))
       IN  resolver' = [resolver EXCEPT
                          !.processed = processed,
                          !.pc = IF i = Len(resolver.speaker_segments)
                                 THEN "done" ELSE "assign"]
    /\ UNCHANGED <<liveVars, serviceVars, poller, parser, matcher, finalizer>>

\* -------------------------------------- finalize_with_diarization (finalizer)
\* the diarized segments of a recording: a cloud label, a text (here the
\* position of the segment in the list), and a time span in seconds that can
\* be sliced from a 2 s recording, lies past its end, is empty, or is missing
DiarizedSpans ==
    { [start_time |-> Some(Ratio(0, 1000)), end_time |-> Some(Ratio(1000, 1000))],
      [start_time |-> Some(Ratio(2000, 1000)), end_time |-> Some(Ratio(3000, 1000))],
      [start_time |-> Some(Ratio(1000, 1000)), end_time |-> Some(Ratio(1000, 1000))],
      [start_time |-> None, end_time |-> None] }

DiarizedLabels == {"SPEAKER_1", "SPEAKER_2", "SPEAKER_3"}

DiarizedSegment(label, span, position) ==
    [speaker |-> label, text |-> position,
     start_time |-> span.start_time, end_time |-> span.end_time,
     speaker_role |-> None, enrolled_speaker |-> None,
     enrollment_confidence |-> None, assignment_method |-> None]

\* every label on the span that can be sliced, and every span under SPEAKER_2
DiarizedShapes ==
    { [label |-> l,
       span |-> [start_time |-> Some(Ratio(0, 1000)),
                 end_time |-> Some(Ratio(1000, 1000))]] : l \in DiarizedLabels }
    \cup { [label |-> "SPEAKER_2", span |-> s] : s \in DiarizedSpans }

DiarizedLists ==
    UNION { { [i \in 1..n |-> DiarizedSegment(shapes[i].label, shapes[i].span, i)] :
                shapes \in [1..n -> DiarizedShapes] } :
            n \in 1..MaxDiarized }

\* the instant transcripts the client sends back, with or without their
\* optional keys
Transcripts ==
    [text : {None, Some("xin chao"), Some("hello")},
     translation : {None, Some("hello")}]

TranscriptLists == UNION { [1..n -> Transcripts] : n \in 0..MaxTranscripts }

TwoTranscripts ==
    << [text |-> Some("xin chao"), translation |-> Some("hello")],
       [text |-> Some("hello"), translation |-> None] >>

\* the speaker of transcript i, the first one given SPEAKER_2
DefaultSpeaker_FromSecond(i) == IF i % 2 = 1 THEN "SPEAKER_2" ELSE "SPEAKER_1"

\* current_speaker at transcript i (1-based): SPEAKER_1 at the first, flipped
\* at every later one (lines 431-436)
DefaultSpeaker(i) == IF i % 2 = 1 THEN "SPEAKER_1" ELSE "SPEAKER_2"

\* _apply_default_speakers: the "segments" of its result
ApplyDefaultSpeakers(transcripts) ==
    [i \in 1..Len(transcripts) |->
        [speaker |-> DefaultSpeaker(i),
         speaker_role |-> IF DefaultSpeaker(i) = "SPEAKER_1"
                          THEN "Healthcare Provider" ELSE "Patient/Family",
         text |-> Get(transcripts[i].text, ""),
         translation |-> Get(transcripts[i].translation, ""),
         confidence |-> 50,
         method |-> "alternating_fallback"]]

\* _apply_role_to_segments: the role from the cloud label
ApplyRoleToSegments(segments) ==
    [i \in 1..Len(segments) |->
        IF segments[i].speaker \in {"SPEAKER_1", "A", "1"}
        THEN [segments[i] EXCEPT !.speaker = "SPEAKER_1",
                                 !.speaker_role = Some("Healthcare Provider")]
        ELSE [segments[i] EXCEPT !.speaker = "SPEAKER_2",
                                 !.speaker_role = Some("Patient/Family")]]

\* int(seconds * sr)
SampleOf(seconds) == (seconds.num * SampleRate) \div seconds.den

StartSample(segment) == SampleOf(Get(segment.start_time, Ratio(0, 1)))

\* end_time defaults to start_time + 3 (line 387)
EndSample(segment) ==
    LET start_time == Get(segment.start_time, Ratio(0, 1))
    IN  SampleOf(Get(segment.end_time,
                     Ratio(start_time.num + 3 * start_time.den, start_time.den)))

\* the test of line 393 without its second half
CannotSlice_OnlyPastEnd(segment, samples) == StartSample(segment) >= samples

\* if start_sample >= len(audio_array) or end_sample <= start_sample (line 393)
CannotSlice(segment, samples) ==
    \/ StartSample(segment) >= samples
    \/ EndSample(segment) <= StartSample(segment)

\* lines 394-395, 413-414, 419-420
AsProvider(segment) ==
    [segment EXCEPT !.speaker = "SPEAKER_1",
                    !.speaker_role = Some("Healthcare Provider")]

\* what identify_enrolled_speaker can return
IdentifyResults ==
    { IdentifyEnrolledSpeaker(a, ps) : a \in AudioOutcomes, ps \in ProfileLists }

\* the branch on the result of identify_enrolled_speaker (lines 407-415)
EnhanceMatched(segment, match) ==
    IF match.name # None /\ match.similarity >= AcceptThreshold
    THEN [segment EXCEPT !.speaker = "SPEAKER_2",
                         !.speaker_role = Some("Patient/Family"),
                         !.enrolled_speaker = match.name,
                         !.enrollment_confidence = Some(match.similarity)]
    ELSE [AsProvider(segment) EXCEPT
             !.enrollment_confidence = Some(match.similarity)]

\* one call: the diarized segments, the instant transcripts, the samples of
\* the recording (None when librosa cannot load it), the segments enhanced so
\* far and the result returned
FinalizerStart(diarized, transcripts, audio) ==
    [pc |-> "diarized", diarized_segments |-> diarized,
     instant_transcripts |-> transcripts, audio |-> audio,
     enhanced |-> << >>, result |-> None]

FinalResult(segments, method) ==
    Some([success |-> TRUE, segments |-> segments, method |-> method])

\* process_audio_with_diarization has returned (lines 323-336), and
\* _enhance_with_enrollment runs up to its loop (lines 376-383)
FinalizeDiarized ==
    /\ finalizer.pc = "diarized"
    /\ finalizer' =
          IF finalizer.diarized_segments = << >>
          THEN [finalizer EXCEPT
                  !.pc = "done",
                  !.result = FinalResult(
                                 ApplyDefaultSpeakers(finalizer.instant_transcripts),
                                 "alternating_fallback")]
          ELSE IF finalizer.audio = None
          THEN [finalizer EXCEPT
                  !.pc = "done",
                  !.result = FinalResult(
                                 ApplyRoleToSegments(finalizer.diarized_segments),
                                 "post_recording_diarization")]
          ELSE [finalizer EXCEPT !.pc = "enhance"]
    /\ UNCHANGED <<liveVars, serviceVars, poller, parser, matcher, resolver>>

\* how the await of identify_enrolled_speaker ends: it returns a match
\* result, or raises
IdentifyOutcomes ==
    { [raised |-> FALSE, match |-> r] : r \in IdentifyResults }
    \cup { [raised |-> TRUE, match |-> MatchResult(None, 0)] }

\* the segment after a turn of the loop of _enhance_with_enrollment (lines
\* 385-422)
EnhancedSegment(segment, samples, outcome) ==
    IF CannotSlice(segment, samples) THEN AsProvider(segment)
    ELSE IF outcome.raised THEN AsProvider(segment)
    ELSE EnhanceMatched(segment, outcome.match)

\* one turn of the loop, and the return after the last one (lines 338-344)
EnhanceSegment ==
    \E outcome \in IdentifyOutcomes :
        /\ finalizer.pc = "enhance"
        /\ LET i == Len(finalizer.enhanced) + 1
               segment == finalizer.diarized_segments[i]
               enhanced == Append(finalizer.enhanced,
                                  EnhancedSegment(segment, finalizer.audio[1],
                                                  outcome))
           IN  finalizer' =
                 IF i = Len(finalizer.diarized_segments)
                 THEN [finalizer EXCEPT
                         !.enhanced = enhanced, !.pc = "done",
                         !.result = FinalResult(enhanced,
                                                "post_recording_diarization")]
                 ELSE [finalizer EXCEPT !.enhanced = enhanced]
        /\ UNCHANGED <<liveVars, serviceVars, poller, parser, matcher, resolver>>

\* ------------------------------------------------- the pipeline, call by call
\* One call of one component of the diarization pipeline, on any of its
\* inputs; the other components have no call in progress.
PipelineInit ==
    /\ SessionsInit
    /\ poller = Idle
    /\ ServicesIdle
    /\ \/ /\ parser \in {ParserStart(r) : r \in Responses}
          /\ matcher = Idle /\ resolver = Idle /\ finalizer = Idle
       \/ /\ \E a \in AudioOutcomes :
                matcher \in {MatcherStart(a, ps) : ps \in ProfileListsFor(a)}
          /\ parser = Idle /\ resolver = Idle /\ finalizer = Idle
       \/ /\ resolver \in {ResolverStart(segs) : segs \in RouteSegmentLists}
          /\ parser = Idle /\ matcher = Idle /\ finalizer = Idle
       \/ /\ finalizer \in
                {FinalizerStart(<< >>, ts, Some(AudioSamples)) : ts \in TranscriptLists}
                \cup {FinalizerStart(d, TwoTranscripts, a) :
                         d \in DiarizedLists, a \in {None, Some(AudioSamples)}}
          /\ parser = Idle /\ matcher = Idle /\ resolver = Idle

PipelineNext ==
    \/ ParseResponse
    \/ IdentifySpeaker
    \/ AssignSegmentRole
    \/ FinalizeDiarized
    \/ EnhanceSegment

PipelineSpec == PipelineInit /\ [][PipelineNext]_vars

\* ------------------------------------------------ enroll_family_voice (enroller)
\* Durations are in half seconds, energies in ten-thousandths, scores in
\* thousandths.

\* load_audio_universal: the decoded clip, an empty array, or an exception
LoadOutcomes == {"ok", "empty", "error"}

ClipHalfSeconds == (MinClipHalfSeconds - 2)..(2 * MaxClipSeconds)

RmsLevels == {0, NoiseFloor - 1, NoiseFloor, NoiseFloor + 1}

Clips == [load : LoadOutcomes, half_seconds : ClipHalfSeconds, rms : RmsLevels]

\* consistency_score values, already clamped to [0, 1] at line 304
ConsistencyScores == {0, 500, 1000}

\* _validate_audio_quality without its energy test
IsValid_DurationOnly(clip) == ~(clip.half_seconds < MinClipHalfSeconds)

\* _validate_audio_quality: is_valid
IsValid(clip) ==
    /\ ~(clip.half_seconds < MinClipHalfSeconds)
    /\ ~(clip.rms < NoiseFloor)

\* int(total_duration - segment_duration), in seconds
WindowStop(clip) == (clip.half_seconds - WindowHalfSeconds) \div 2

\* embeddings if len(embeddings) >= 5 else [], taking six as the least
KeepsEmbeddings_MoreThanFive(n) == n > MinEmbeddings

KeepsEmbeddings(n) == n >= MinEmbeddings

Min(a, b) == IF a <= b THEN a ELSE b

\* min(1.0, (len(embeddings) / 10.0) * consistency_score)
QualityScore(n, consistency) == Min(1000, (n * consistency) \div 10)

\* _create_voice_profile
VoiceProfile(n, consistency) ==
    [sample_count |-> n, consistency_score |-> consistency,
     quality_score |-> QualityScore(n, consistency)]

EnrollStart(clip) ==
    [pc |-> "load", clip |-> clip, start_time |-> 0, extracted |-> 0,
     embeddings |-> 0, write |-> "none", stored |-> << >>, result |-> None]

\* _extract_multiple_embeddings up to the loop: load and validate
EnrollLoadAudio ==
    /\ enroller.pc = "load"
    /\ IF enroller.clip.load = "ok" /\ IsValid(enroller.clip)
       THEN enroller' = [enroller EXCEPT !.pc = "window"]
       ELSE enroller' = [enroller EXCEPT !.pc = "extracted"]
    /\ UNCHANGED <<liveVars, pipelineVars, lookup, coercer, translator, diarizer>>

\* one pass of the window loop: _extract_voice_features gives an embedding,
\* or None for a quiet window or after an exception
ExtractWindow ==
    /\ enroller.pc = "window"
    /\ enroller.start_time < WindowStop(enroller.clip)
    /\ \E outcome \in {"embedding", "quiet", "error"} :
        enroller' = [enroller EXCEPT
                        !.start_time = @ + Stride,
                        !.extracted = IF outcome = "embedding" THEN @ + 1 ELSE @]
    /\ UNCHANGED <<liveVars, pipelineVars, lookup, coercer, translator, diarizer>>

\* the loop is over: return embeddings if len(embeddings) >= 5 else []
ExtractReturn ==
    /\ enroller.pc = "window"
    /\ ~(enroller.start_time < WindowStop(enroller.clip))
    /\ enroller' = [enroller EXCEPT
                      !.pc = "extracted",
                      !.embeddings = IF KeepsEmbeddings(enroller.extracted)
                                     THEN enroller.extracted ELSE 0]
    /\ UNCHANGED <<liveVars, pipelineVars, lookup, coercer, translator, diarizer>>

EnrollFailure(recommendation) ==
    [success |-> FALSE, recommendation |-> recommendation]

EnrollSuccess(profile) ==
    [success |-> TRUE, voice_samples_processed |-> profile.sample_count,
     enrollment_quality |-> profile.quality_score]

\* enroll_family_voice after the extraction: the failure result, or the
\* profile and its INSERT, which commits or raises
EnrollStore ==
    /\ enroller.pc = "extracted"
    /\ IF enroller.embeddings = 0
       THEN enroller' = [enroller EXCEPT
                           !.pc = "done",
                           !.result = Some(EnrollFailure(TRUE))]
       ELSE \E consistency \in ConsistencyScores, write \in {"ok", "raise"} :
              LET profile == VoiceProfile(enroller.embeddings, consistency)
              IN  enroller' = [enroller EXCEPT
                      !.pc = "done",
                      !.write = write,
                      !.stored = IF write = "ok" THEN Append(@, profile) ELSE @,
                      !.result = IF write = "ok"
                                 THEN Some(EnrollSuccess(profile))
                                 ELSE Some(EnrollFailure(FALSE))]
    /\ UNCHANGED <<liveVars, pipelineVars, lookup, coercer, translator, diarizer>>

\* --------------------------------------------------- _get_family_profiles (lookup)
\* an active row of voice_enrollments: the profile it holds, and whether
\* cipher.decrypt and json.loads accept its encrypted_voice_profile
Records == [speaker_name : SpeakerNames, similarity : Similarities, decrypts : BOOLEAN]

RecordLists == UNION { [1..n -> Records] : n \in 0..MaxRecords }

ProfileOf(record) ==
    [speaker_name |-> record.speaker_name, similarity |-> record.similarity]

\* the for loop over the rows: the list so far, or None once a row raised
RECURSIVE DecryptRecords(_, _, _)
DecryptRecords(records, i, profiles) ==
    IF i > Len(records) THEN Some(profiles)
    ELSE IF ~records[i].decrypts THEN None
    ELSE DecryptRecords(records, i + 1, Append(profiles, ProfileOf(records[i])))

\* _get_family_profiles: the except clause returns [] for any exception
GetFamilyProfiles(records) == Get(DecryptRecords(records, 1, << >>), << >>)

LookupStart(records) ==
    [pc |-> "fetch", records |-> records, profiles |-> << >>, result |-> None]

\* enrolled_profiles = await self._get_family_profiles(family_id)
FetchProfiles ==
    /\ lookup.pc = "fetch"
    /\ lookup' = [lookup EXCEPT !.pc = "match",
                                !.profiles = GetFamilyProfiles(lookup.records)]
    /\ UNCHANGED <<liveVars, pipelineVars, enroller, coercer, translator, diarizer>>

\* identify_enrolled_speaker from the test of enrolled_profiles on, for a
\* segment that gave an embedding
MatchFetched ==
    /\ lookup.pc = "match"
    /\ lookup' = [lookup EXCEPT
                    !.pc = "done",
                    !.result = Some(IdentifyEnrolledSpeaker("embedding", lookup.profiles))]
    /\ UNCHANGED <<liveVars, pipelineVars, enroller, coercer, translator, diarizer>>

\* ------------------------------------------- confidence formatting (coercer)
\* Confidences are in thousandths. A segment's "confidence" is what the
\* diarization parser put there: a number, a string or null of the service's
\* JSON, or one of the parser's own defaults.
Num(n) == [kind |-> "number", value |-> n, text |-> ""]
Str(s) == [kind |-> "string", value |-> 0, text |-> s]
Null == [kind |-> "null", value |-> 0, text |-> ""]

ConfidenceValues ==
    { Num(n) : n \in {-500, 0, 500, 1000, 1500} }
    \cup { Str(s) : s \in {"fallback", "Fallback_estimate", "high", "0.5", "1.5"} }
    \cup { Null }

ConfidenceLists == UNION { [1..n -> ConfidenceValues] : n \in 1..MaxCoerced }

\* "fallback" in confidence.lower()
ContainsFallback(s) == s \in {"fallback", "Fallback_estimate"}

\* float(confidence_val) of a string: the number, or None for ValueError
FloatOf(s) ==
    CASE s = "0.5" -> Some(500)
      [] s = "1.5" -> Some(1500)
      [] OTHER -> None

Max(a, b) == IF a >= b THEN a ELSE b

\* max(0.0, min(1.0, float(confidence)))
Clamp(n) == Max(0, Min(1000, n))

\* live_diarize, lines 331-347
LiveDiarizeConfidence(v) ==
    LET fixed == IF v.kind = "string"
                 THEN IF ContainsFallback(v.text) THEN Num(600)
                      ELSE Num(Get(FloatOf(v.text), 800))
                 ELSE v
    IN  IF fixed.kind # "number" THEN Some(Num(800))
        ELSE Some(Num(Clamp(fixed.value)))

\* enhanced_live_diarize, lines 461-465: float(None) raises TypeError
EnhancedDiarizeConfidence(v) ==
    IF v.kind = "string"
    THEN Some(Num(IF ContainsFallback(v.text) THEN 600 ELSE 800))
    ELSE IF v.kind = "number" THEN Some(Num(Clamp(v.value)))
    ELSE None

\* finalize_with_diarization and _enhance_with_enrollment leave the
\* "confidence" of a diarized segment as the parser wrote it
FinalizeConfidence(v) == Some(v)

Handlers == {"live_diarize", "enhanced_live_diarize", "finalize"}

HandlerConfidence(handler, v) ==
    CASE handler = "live_diarize" -> LiveDiarizeConfidence(v)
      [] handler = "enhanced_live_diarize" -> EnhancedDiarizeConfidence(v)
      [] OTHER -> FinalizeConfidence(v)

\* the segments of the response: an exception in the loop reaches the
\* handler's except clause, whose response carries no segment
ResponseConfidences(handler, confidences) ==
    LET out == [i \in 1..Len(confidences) |-> HandlerConfidence(handler, confidences[i])]
    IN  IF \E i \in 1..Len(out) : out[i] = None
        THEN << >>
        ELSE [i \in 1..Len(out) |-> out[i][1]]

CoercerStart(handler, confidences) ==
    [pc |-> "format", handler |-> handler, confidences |-> confidences,
     returned |-> << >>]

FormatResponse ==
    /\ coercer.pc = "format"
    /\ coercer' = [coercer EXCEPT
                     !.pc = "done",
                     !.returned = ResponseConfidences(coercer.handler,
                                                      coercer.confidences)]
    /\ UNCHANGED <<liveVars, pipelineVars, enroller, lookup, translator, diarizer>>

\* --------------------------------------- source language of translate_text (translator)
\* the form field source_language: absent (None), empty, or a string
SourceLanguages ==
    {None, Some(""), Some("auto"), Some("Auto"), Some("automatic"),
     Some("detect"), Some("en"), Some(" EN ")}

\* str.lower()
Lower(s) ==
    CASE s = "Auto" -> "auto"
      [] s = " EN " -> " en "
      [] OTHER -> s

\* str.strip() of a language value
StripLanguage(s) == IF s = " en " THEN "en" ELSE IF s = " EN " THEN "EN" ELSE s

\* a value Python takes as true: neither None nor the empty string
Truthy(x) == x # None /\ x # Some("")

\* fix_source_language (combined_translation.py)
FixSourceLanguage(source_language) ==
    IF Truthy(source_language)
       /\ Lower(source_language[1]) \in {"auto", "automatic", "detect"}
    THEN None
    ELSE source_language

\* instant_transcribe: source_language if source_language != "auto" else None
InstantRouteSource(source_language) ==
    IF source_language # Some("auto") THEN source_language ELSE None

\* transcribe_and_translate_instant:
\* None if source_language in ["auto", "automatic", "", None] else source_language
InstantServiceSource(source_language) ==
    IF source_language \in {Some("auto"), Some("automatic"), Some(""), None}
    THEN None
    ELSE source_language

\* the routes that reach translate_text: those of combined_translation,
\* /instant-transcribe/, /finalize-session/ and /translate/
TranslatePaths == {"combined", "instant", "finalize", "translate"}

\* the source_lang argument a path passes to translate_text
SourceArgument(path, source_language) ==
    CASE path = "combined" -> FixSourceLanguage(source_language)
      [] path = "instant" -> InstantServiceSource(InstantRouteSource(source_language))
      [] OTHER -> None

\* translate_text: params["source"] = source_lang.strip().lower() if
\* source_lang is given, else no "source" parameter
SourceParameter(source_lang) ==
    IF Truthy(source_lang) THEN Some(Lower(StripLanguage(source_lang[1])))
    ELSE None

TranslatorStart(path, source_language) ==
    [pc |-> "call", path |-> path, source_language |-> source_language,
     sent |-> None]

\* one request up to the request translate_text sends
CallTranslateText ==
    /\ translator.pc = "call"
    /\ translator' = [translator EXCEPT
                        !.pc = "done",
                        !.sent = SourceParameter(
                                    SourceArgument(translator.path,
                                                   translator.source_language))]
    /\ UNCHANGED <<liveVars, pipelineVars, enroller, lookup, coercer, diarizer>>

\* ------------------------------ process_audio_with_diarization (diarizer)
\* The four steps of the call, each of which may fail: an exception raised
\* in any of them reaches the except clause of lines 53-55, which returns [].
DiarizeFailures == {"upload", "request", "status", "timeout", "parse"}

\* the segments of a recording that was diarized: one utterance
OneDiarized ==
    <<DiarizedSegment("SPEAKER_2",
                      [start_time |-> Some(Ratio(0, 1000)),
                       end_time |-> Some(Ratio(1000, 1000))], 1)>>

DiarizerStart(transcripts) ==
    [pc |-> "upload", instant_transcripts |-> transcripts, failed |-> "none",
     returned |-> None]

\* the except clause returning segments instead of []
DiarizeFailed_KeepsSegments(stage) ==
    [diarizer EXCEPT !.pc = "returned", !.failed = stage,
                     !.returned = Some(OneDiarized)]

\* except Exception: return []
DiarizeFailed(stage) ==
    [diarizer EXCEPT !.pc = "returned", !.failed = stage, !.returned = Some(<< >>)]

\* _upload_audio: the upload URL, or an exception (status not 200, no
\* connection)
DiarizeUpload ==
    /\ diarizer.pc = "upload"
    /\ \E ok \in BOOLEAN :
        diarizer' = IF ok THEN [diarizer EXCEPT !.pc = "request"]
                    ELSE DiarizeFailed("upload")
    /\ UNCHANGED <<liveVars, pipelineVars, enroller, lookup, coercer, translator>>

\* _request_transcription: the transcript id, or an exception
DiarizeRequest ==
    /\ diarizer.pc = "request"
    /\ \E ok \in BOOLEAN :
        diarizer' = IF ok THEN [diarizer EXCEPT !.pc = "wait"]
                    ELSE DiarizeFailed("request")
    /\ UNCHANGED <<liveVars, pipelineVars, enroller, lookup, coercer, translator>>

\* _wait_for_completion as its caller sees it: the completed transcript, or
\* the exception of a status poll (status "error", status code not 200) or
\* of the timeout
DiarizeWait ==
    /\ diarizer.pc = "wait"
    /\ \E outcome \in {"completed", "status", "timeout"} :
        diarizer' = IF outcome = "completed" THEN [diarizer EXCEPT !.pc = "parse"]
                    ELSE DiarizeFailed(outcome)
    /\ UNCHANGED <<liveVars, pipelineVars, enroller, lookup, coercer, translator>>

\* _parse_speaker_segments: segments, no segment, or an exception (a field of
\* the response that is not of the type the parser divides or strips)
DiarizeParse ==
    /\ diarizer.pc = "parse"
    /\ \E outcome \in {"segments", "empty", "raise"} :
        diarizer' =
            CASE outcome = "segments" ->
                    [diarizer EXCEPT !.pc = "returned", !.returned = Some(OneDiarized)]
              [] outcome = "empty" ->
                    [diarizer EXCEPT !.pc = "returned", !.returned = Some(<< >>)]
              [] OTHER -> DiarizeFailed("parse")
    /\ UNCHANGED <<liveVars, pipelineVars, enroller, lookup, coercer, translator>>

\* diarized_segments = await ...process_audio_with_diarization(file_wrapper):
\* finalize_with_diarization goes on with the list returned
DiarizeReturn ==
    /\ diarizer.pc = "returned"
    /\ finalizer = Idle
    /\ diarizer' = [diarizer EXCEPT !.pc = "done"]
    /\ finalizer' = FinalizerStart(diarizer.returned[1], diarizer.instant_transcripts,
                                   Some(AudioSamples))
    /\ UNCHANGED <<liveVars, poller, parser, matcher, resolver, enroller, lookup,
                   coercer, translator>>

\* ------------------------------------------------------------- the services
\* One call of one service operation, on any of its inputs; the other
\* components have no call in progress.
ServiceInit ==
    /\ SessionsInit
    /\ PipelineIdle
    /\ \/ /\ enroller \in {EnrollStart(clip) : clip \in Clips}
          /\ lookup = Idle /\ coercer = Idle /\ translator = Idle
          /\ diarizer = Idle
       \/ /\ lookup \in {LookupStart(records) : records \in RecordLists}
          /\ enroller = Idle /\ coercer = Idle /\ translator = Idle
          /\ diarizer = Idle
       \/ /\ coercer \in {CoercerStart(h, cs) : h \in Handlers, cs \in ConfidenceLists}
          /\ enroller = Idle /\ lookup = Idle /\ translator = Idle
          /\ diarizer = Idle
       \/ /\ translator \in {TranslatorStart(p, l) :
                                 p \in TranslatePaths, l \in SourceLanguages}
          /\ enroller = Idle /\ lookup = Idle /\ coercer = Idle
          /\ diarizer = Idle
       \/ /\ diarizer \in {DiarizerStart(ts) : ts \in TranscriptLists}
          /\ enroller = Idle /\ lookup = Idle /\ coercer = Idle
          /\ translator = Idle

ServiceNext ==
    \/ EnrollLoadAudio
    \/ ExtractWindow
    \/ ExtractReturn
    \/ EnrollStore
    \/ FetchProfiles
    \/ MatchFetched
    \/ FormatResponse
    \/ CallTranslateText
    \/ DiarizeUpload
    \/ DiarizeRequest
    \/ DiarizeWait
    \/ DiarizeParse
    \/ DiarizeReturn
    \/ FinalizeDiarized
    \/ EnhanceSegment

ServiceSpec == ServiceInit /\ [][ServiceNext]_vars

\* ------------------------------------------------------------------ claims
Segments(s) == sessions[s].speaker_segments

\* an end_session call begins in this step
EndBegins == nCalls' = nCalls + 1

\* an add_segment call runs in this step
AddRuns == nSeg' = nSeg + 1

\* this step is the return of end_session call `call`, which had been made
\* on an active session
EndReturns(call) == calls' = calls \ {call} /\ call.before = "active"

Rank(status) ==
    CASE status = "active" -> 0
      [] status = "processing_journal" -> 1
      [] OTHER -> 2

\* C1: when end_session is called twice in sequence and the first call
\* succeeds, the first call empties the segment list and the second call is
\* rejected: it makes no summarization call and changes no session state.
C1_SecondEndRejected ==
    [][\A s \in DOMAIN sessions :
          /\ (last'.op = "end_return" /\ last'.outcome = "completed" /\ nCalls = 1)
                => sessions'[s].speaker_segments = << >>
          /\ (sessions[s].status = "completed" /\ calls = {} /\ nCalls = 1
                 /\ EndBegins)
                => (sessions' = sessions /\ summCalls' = summCalls
                      /\ calls' = calls)]_vars

\* C2: a session's status only moves forward along active ->
\* processing_journal -> {completed, journal_failed, error}, and a terminal
\* status never changes again.
C2_StatusNeverRegresses ==
    [][\A s \in DOMAIN sessions :
          /\ Rank(sessions'[s].status) >= Rank(sessions[s].status)
          /\ sessions[s].status \in Terminal
                => sessions'[s].status = sessions[s].status]_vars

\* C3: generate_medical_journal_entry is called at most once per session.
C3_SummarizedAtMostOnce == \A s \in SessionIds : summCalls[s] <= 1

C5_FailureKeepsSegments ==
    [][\A call \in calls :
          (EndReturns(call) /\ last'.outcome = "journal_failed")
          => LET sess == sessions'[call.session_id]
             IN  /\ sess.status = "journal_failed"
                 /\ SegIds(sess.speaker_segments) = call.handoff]_vars

\* C6: add_segment on a session whose status is completed, journal_failed or
\* error leaves its segment list and last_activity unchanged and schedules no
\* redaction task.
C6_TerminalAddRejected ==
    [][\A s \in DOMAIN sessions :
          (sessions[s].status \in Terminal /\ AddRuns)
          => /\ sessions'[s].speaker_segments = sessions[s].speaker_segments
             /\ sessions'[s].last_activity = sessions[s].last_activity
             /\ tasks' = tasks]_vars

\* C7: after the redaction task of a segment that is still at its index has
\* run, the segment's text is the redaction marker and its speaker and
\* confidence are what it was added with.
C7_RedactionOverwritesText ==
    \A s \in DOMAIN sessions :
        (/\ last.op = "redact"
         /\ last.idx < Len(Segments(s))
         /\ Segments(s)[last.idx + 1].id = last.seg)
        => /\ Segments(s)[last.idx + 1].text = DeletedMarker
           /\ \E in \in SegmentInputs :
                 /\ Segments(s)[last.idx + 1].speaker = in.speaker
                 /\ Segments(s)[last.idx + 1].confidence = in.confidence

\* C8: a redaction task that runs when its session is gone or its index is
\* no longer within the segment list changes nothing, and no redaction task
\* touches a request handler: the end_session calls in flight, the WebSocket
\* handler and the scheduled background work are as they were.
C8_StaleRedactionIsNoOp ==
    [][\A t \in tasks :
          (tasks' = tasks \ {t})
          => /\ (\/ t.session_id \notin DOMAIN sessions
                 \/ t.segment_index >= Len(Segments(t.session_id)))
                => UNCHANGED <<sessions, active_sessions, completed_sessions,
                               calls, background, ws, summCalls, accepted>>
             /\ UNCHANGED <<calls, background, ws, active_sessions,
                            completed_sessions>>]_vars

\* C8 witness: a task has just run on a purged list and changed nothing
C8_Witness ==
    /\ last.op = "redact"
    /\ last.noop
    /\ \E s \in DOMAIN sessions :
          /\ accepted[s] # << >>
          /\ last.idx >= Len(Segments(s))

\* C9: if the WebSocket client disconnects while the session is active,
\* end_session is invoked and the session leaves status active.
C9_DisconnectEndsSession ==
    (ws = "disconnected" /\ StatusOf(WsSession) = "active")
        ~> (StatusOf(WsSession) # "active")

\* C9 witness: the disconnect handler has just called end_session on an
\* active session
C9_Witness ==
    /\ ws = "closing"
    /\ StatusOf(WsSession) = "processing_journal"
    /\ \E call \in calls :
          /\ call.caller = "ws_disconnect"
          /\ call.before = "active"
          /\ call.pc = "await_journal"

\* C10: while a session is active, its segment list holds exactly the
\* segments add_segment accepted for it, each once and in call order, and
\* every pending redaction task holds the index where its segment is stored.
C10_NoLostSegment ==
    \A s \in DOMAIN sessions :
        sessions[s].status = "active"
        => /\ SegIds(Segments(s)) = accepted[s]
           /\ \A t \in tasks :
                 t.session_id = s
                 => /\ t.segment_index >= 0
                    /\ t.segment_index < Len(Segments(s))
                    /\ Segments(s)[t.segment_index + 1].id = t.seg

\* C10 witness: two segments stored in an active session, both tasks pending
C10_Witness ==
    \E s \in DOMAIN sessions :
        /\ sessions[s].status = "active"
        /\ Len(Segments(s)) >= 2
        /\ Cardinality({t \in tasks : t.session_id = s}) >= 2
\* C11: the diarization wait always terminates: it returns the result when
\* the job status is completed, fails when the status is error or a status
\* check is not HTTP 200, or fails with a timeout once the total wait bound
\* is reached; while the job is processing it polls again after the fixed
\* interval, and it never waits beyond the bound.
C11_WaitTerminatesWithinBound ==
    /\ <>(poller.pc \in PollDone)
    /\ [](poller.pc = "returned" => poller.status = "completed")
    /\ [](poller.pc = "raised_error" => poller.status = "error")
    /\ [](poller.pc = "raised_status" => poller.status = "http_500")
    /\ [](poller.pc = "raised_timeout" => poller.elapsed >= MaxWaitTime)
    /\ [][poller.pc = "sleep" =>
            (poller'.pc = "loop"
               /\ poller'.elapsed = poller.elapsed + PollInterval)]_vars
    /\ [](poller.pc # "idle" => poller.elapsed <= MaxWaitTime)

\* the label the specification gives for a speaker letter
ClaimedLabel(letter) ==
    CASE letter = "A" -> "SPEAKER_1" [] letter = "B" -> "SPEAKER_2"
      [] letter = "C" -> "SPEAKER_3" [] letter = "D" -> "SPEAKER_4"
      [] OTHER -> "SPEAKER_1"

\* seconds is ms milliseconds
IsSecondsOf(seconds, ms) == seconds.num * 1000 = ms * seconds.den

\* segment seg is utterance u normalised: mapped label, stripped text, times
\* in seconds (a missing start is 0, a missing end is 1 s)
SegmentOfUtterance(seg, u) ==
    /\ seg.speaker = ClaimedLabel(Get(u.speaker, "none"))
    /\ seg.text = Strip(Get(u.text, ""))
    /\ IsSecondsOf(seg.start_time, Get(u.start, 0))
    /\ IsSecondsOf(seg.end_time, Get(u.end, 1000))

\* C15 as stated: for a response whose utterance list is non-empty, the
\* parser emits exactly one segment per utterance, in utterance order, with
\* speaker letters A, B, C, D mapped to SPEAKER_1..4 and start and end
\* converted from milliseconds to seconds.
C15_OneSegmentPerUtterance ==
    (parser.pc = "done" /\ Populated(parser.response.utterances))
    => LET utts == parser.response.utterances[1]
           out == parser.segments
       IN  /\ Len(out) = Len(utts)
           /\ \A i \in 1..Len(utts) :
                 /\ utts[i].speaker \in {Some("A"), Some("B"), Some("C"), Some("D")}
                       => out[i].speaker = ClaimedLabel(utts[i].speaker[1])
                 /\ utts[i].text # None => out[i].text = Strip(utts[i].text[1])
                 /\ utts[i].start # None
                       => IsSecondsOf(out[i].start_time, utts[i].start[1])
                 /\ utts[i].end # None
                       => IsSecondsOf(out[i].end_time, utts[i].end[1])

\* C15 amended: for a response whose aggregate text is not blank and whose
\* utterance list is non-empty, the parser emits exactly one segment per
\* utterance whose text is not blank, in utterance order, with speaker
\* letters A, B, C, D mapped to SPEAKER_1..4 (any other or a missing letter
\* to SPEAKER_1), the text stripped, and start and end converted from
\* milliseconds to seconds (0 and 1 s when missing); with a blank or missing
\* aggregate text it emits nothing.
C15_OneSegmentPerSpokenUtterance ==
    (parser.pc = "done" /\ Populated(parser.response.utterances))
    => LET utts == parser.response.utterances[1]
           out == parser.segments
           Spoken(i) == utts[i].text \notin {None, Some(""), Some(" ")}
           idx == SelectSeq([i \in 1..Len(utts) |-> i], Spoken)
       IN  IF parser.response.text \in {None, Some(""), Some(" ")}
           THEN out = << >>
           ELSE /\ Len(out) = Len(idx)
                /\ \A k \in 1..Len(idx) : SegmentOfUtterance(out[k], utts[idx[k]])

\* C15 witness: the utterances [{A,Hello,0,1000},{B,Hi doctor,1000,2000}]
\* have been parsed into [{SPEAKER_1,Hello,0.0,1.0},{SPEAKER_2,Hi doctor,1.0,2.0}]
C15_Witness ==
    /\ parser.pc = "done"
    /\ parser.response.utterances # None
    /\ LET utts == parser.response.utterances[1]
           out == parser.segments
       IN  /\ Len(utts) = 2
           /\ utts[1].speaker = Some("A") /\ utts[1].text = Some("Hello")
           /\ utts[1].start = Some(0) /\ utts[1].end = Some(1000)
           /\ utts[2].speaker = Some("B") /\ utts[2].text = Some(" Hi doctor ")
           /\ utts[2].start = Some(1000) /\ utts[2].end = Some(2000)
           /\ Len(out) = 2
           /\ out[1].speaker = "SPEAKER_1" /\ out[1].text = "Hello"
           /\ RatioEq(out[1].start_time, Ratio(0, 1))
           /\ RatioEq(out[1].end_time, Ratio(1, 1))
           /\ out[2].speaker = "SPEAKER_2" /\ out[2].text = "Hi doctor"
           /\ RatioEq(out[2].start_time, Ratio(1, 1))
           /\ RatioEq(out[2].end_time, Ratio(2, 1))

\* the aggregate text of the response is missing or blank
NoText(response) == response.text \in {None, Some(""), Some(" ")}

\* the one full-span segment of a response that has only text
IsTextOnlyResult(out) ==
    /\ Len(out) = 1
    /\ out[1].speaker = "SPEAKER_1"
    /\ out[1].method = "no_diarization_fallback"

\* the segments come from the utterance tier
FromUtterances(out) == \A i \in 1..Len(out) : out[i].method = "cloud_diarization"

\* C16 as stated: the parser follows the priority chain utterances > words >
\* aggregate text > nothing: populated utterances are used whatever the
\* words; empty utterances with populated words give exactly the direct
\* word grouping of those words; neither utterances nor words but a text
\* gives exactly one SPEAKER_1 segment with method no_diarization_fallback;
\* no text, no words and no utterances give the empty sequence.
C16_PriorityChain ==
    parser.pc = "done"
    => LET r == parser.response
           out == parser.segments
       IN  /\ Populated(r.utterances) => FromUtterances(out)
           /\ (~Populated(r.utterances) /\ Populated(r.words))
                 => out = ParseWordsToSegments(r)
           /\ (~Populated(r.utterances) /\ ~Populated(r.words) /\ ~NoText(r))
                 => IsTextOnlyResult(out)
           /\ (~Populated(r.utterances) /\ ~Populated(r.words) /\ NoText(r))
                 => out = << >>

\* C16 amended: a response whose aggregate text is missing or blank yields
\* the empty sequence whatever its utterances and words; otherwise the
\* parser follows the priority chain utterances > words > aggregate text:
\* populated utterances are used whatever the words, empty utterances with
\* populated words give exactly the direct word grouping of those words, and
\* neither utterances nor words gives exactly one SPEAKER_1 segment with
\* method no_diarization_fallback.
C16_PriorityChainAfterText ==
    parser.pc = "done"
    => LET r == parser.response
           out == parser.segments
       IN  IF NoText(r)
           THEN out = << >>
           ELSE /\ Populated(r.utterances) => FromUtterances(out)
                /\ (~Populated(r.utterances) /\ Populated(r.words))
                      => out = ParseWordsToSegments(r)
                /\ (~Populated(r.utterances) /\ ~Populated(r.words))
                      => IsTextOnlyResult(out)

\* C16 witness: a response with a text, an empty utterance list and two
\* words of different speakers has been parsed into two word groups
C16_Witness ==
    /\ parser.pc = "done"
    /\ ~NoText(parser.response)
    /\ parser.response.utterances = Some(<< >>)
    /\ Populated(parser.response.words)
    /\ Len(parser.response.words[1]) = 2
    /\ Len(parser.segments) = 2
    /\ \A i \in 1..2 : parser.segments[i].method = "word_level_diarization"

\* every utterance and word that has both a start and an end has start <= end
EntriesOrdered(response) ==
    \A list \in {response.utterances, response.words} :
        list # None =>
            \A i \in 1..Len(list[1]) :
                (list[1][i].start # None /\ list[1][i].end # None)
                    => list[1][i].start[1] <= list[1][i].end[1]

\* C17: every segment the parser emits, on any tier and with any optional
\* start or end missing from the input, has start_time <= end_time,
\* provided every input entry with both a start and an end has start <= end.
C17_StartNotAfterEnd ==
    (parser.pc = "done" /\ EntriesOrdered(parser.response))
    => \A i \in 1..Len(parser.segments) :
          RatioLeq(parser.segments[i].start_time, parser.segments[i].end_time)

\* the profiles of the matcher's call and their indices
MatchedProfiles == matcher.profiles
ProfileIdx == 1..Len(MatchedProfiles)

\* C13: for every candidate embedding and every list of profiles, the match
\* operation returns the profile whose similarity is the maximum among the
\* profiles with similarity >= 0.70, together with that similarity, and
\* returns no match only when no profile reaches 0.70.
C13_MatchAcceptsAtSeventy ==
    (matcher.pc = "done" /\ matcher.audio = "embedding")
    => LET eligible == {i \in ProfileIdx :
                           MatchedProfiles[i].similarity >= AcceptThreshold}
       IN  IF eligible = {}
           THEN matcher.result.name = None
           ELSE \E i \in eligible :
                   /\ \A j \in eligible : MatchedProfiles[j].similarity
                                              <= MatchedProfiles[i].similarity
                   /\ matcher.result.name = Some(MatchedProfiles[i].speaker_name)
                   /\ matcher.result.similarity = MatchedProfiles[i].similarity

ResolvedAsClaimed(seg) ==
    /\ seg.speaker_role \in {Some(r) : r \in Roles}
    /\ IF Get(seg.enrollment_confidence, 0) >= AcceptThreshold
       THEN /\ seg.speaker = "SPEAKER_2"
            /\ seg.speaker_role = Some("Patient/Family")
            /\ seg.assignment_method = Some("voice_enrollment_match")
       ELSE /\ seg.speaker = "SPEAKER_1"
            /\ seg.speaker_role = Some("Healthcare Provider")
            /\ seg.assignment_method = Some("unknown_voice_default_provider")

\* the claim of C12 on the assignment loop of enhanced_live_diarize alone
RouteResolvesAsClaimed ==
    resolver.pc # "idle"
    => \A i \in 1..Len(resolver.processed) :
          ResolvedAsClaimed(resolver.processed[i])

\* C12: role resolution is a total two-way decision with an inclusive 0.70
\* boundary, in the assignment loop of enhanced_live_diarize and in the
\* matching loop of _enhance_with_enrollment: every segment leaving the
\* resolver has exactly one role of the two; with enrollment_confidence >=
\* 0.70 it gets SPEAKER_2, Patient/Family and assignment_method
\* voice_enrollment_match, otherwise SPEAKER_1, Healthcare Provider and
\* assignment_method unknown_voice_default_provider.
C12_TwoWayRoleResolution ==
    /\ RouteResolvesAsClaimed
    /\ (finalizer.pc # "idle" /\ finalizer.diarized_segments # << >>)
         => \A i \in 1..Len(finalizer.enhanced) :
               ResolvedAsClaimed(finalizer.enhanced[i])

\* the segments of the result of the finalizer's call
FinalSegments == finalizer.result[1].segments

\* C18: when diarization yields zero segments at finalize, the reconciler
\* returns exactly one segment per provisional transcript, in arrival order,
\* carrying that transcript's text and translation, labelled SPEAKER_1,
\* SPEAKER_2, SPEAKER_1, ... from SPEAKER_1 at the first transcript, each
\* tagged method alternating_fallback.
C18_AlternatingFallback ==
    (finalizer.pc = "done" /\ finalizer.diarized_segments = << >>)
    => LET transcripts == finalizer.instant_transcripts
       IN  /\ Len(FinalSegments) = Len(transcripts)
           /\ \A i \in 1..Len(transcripts) :
                 /\ transcripts[i].text # None
                       => FinalSegments[i].text = transcripts[i].text[1]
                 /\ transcripts[i].translation # None
                       => FinalSegments[i].translation = transcripts[i].translation[1]
                 /\ FinalSegments[i].method = "alternating_fallback"
                 /\ FinalSegments[i].speaker =
                       (IF i = 1 THEN "SPEAKER_1"
                        ELSE IF FinalSegments[i - 1].speaker = "SPEAKER_1"
                             THEN "SPEAKER_2" ELSE "SPEAKER_1")

\* C18 witness: zero diarized segments and 3 transcripts have given
\* SPEAKER_1, SPEAKER_2, SPEAKER_1
C18_Witness ==
    /\ finalizer.pc = "done"
    /\ finalizer.diarized_segments = << >>
    /\ Len(finalizer.instant_transcripts) = 3
    /\ Len(FinalSegments) = 3
    /\ FinalSegments[1].speaker = "SPEAKER_1"
    /\ FinalSegments[2].speaker = "SPEAKER_2"
    /\ FinalSegments[3].speaker = "SPEAKER_1"
    /\ FinalSegments[1].text = "xin chao"
    /\ FinalSegments[2].text = "hello"

\* the span of segment seg cannot be sliced from a recording of AudioSamples
\* samples: its start index is at or beyond the end of the audio, or its end
\* index is not after its start index
SpanOutsideAudio(seg) ==
    LET start == IF seg.start_time = None THEN Ratio(0, 1) ELSE seg.start_time[1]
        end == IF seg.end_time = None
               THEN Ratio(start.num + 3 * start.den, start.den)
               ELSE seg.end_time[1]
        start_index == (start.num * 16000) \div start.den
        end_index == (end.num * 16000) \div end.den
    IN  start_index >= AudioSamples \/ end_index <= start_index

C20_UnmatchedIsProvider ==
    (finalizer.pc = "done" /\ finalizer.diarized_segments # << >>)
    => \A i \in 1..Len(FinalSegments) :
          FinalSegments[i].speaker_role = Some("Patient/Family")
          => /\ FinalSegments[i].enrolled_speaker # None
             /\ FinalSegments[i].enrollment_confidence # None
             /\ FinalSegments[i].enrollment_confidence[1] >= AcceptThreshold


\* ------------------------------------------------------------- enrollment
EnrollDone == enroller.pc = "done"

EnrollResult == enroller.result[1]

\* the clip is at least 15 s long and its energy is not below the floor
ClipLongAndLoud ==
    /\ enroller.clip.load = "ok"
    /\ enroller.clip.half_seconds >= MinClipHalfSeconds
    /\ enroller.clip.rms >= NoiseFloor

\* the result is a success that stored one profile of at least 5 samples
\* whose quality score is in [0, 1]
YieldsProfile ==
    /\ EnrollResult.success
    /\ Len(enroller.stored) = 1
    /\ enroller.stored[1].sample_count >= 5
    /\ enroller.stored[1].quality_score \in 0..1000

\* C21 (as stated): for every enrollment clip of at least 15 s whose overall
\* RMS energy is above the noise floor, enroll succeeds and yields a profile
\* with sample_count >= 5 and quality_score in [0, 1].
C21_LongLoudClipEnrolls ==
    (EnrollDone /\ ClipLongAndLoud /\ enroller.clip.rms > NoiseFloor)
        => YieldsProfile

\* C21 (amended): for every enrollment clip of at least 15 s whose overall
\* RMS energy is above the noise floor, of which at least 5 windows give an
\* embedding and whose profile the store accepts, enroll succeeds and yields
\* a profile with sample_count >= 5 and quality_score in [0, 1].
C21_LongLoudVoicedClipEnrolls ==
    (/\ EnrollDone
     /\ ClipLongAndLoud
     /\ enroller.clip.rms > NoiseFloor
     /\ enroller.extracted >= 5
     /\ enroller.write # "raise")
        => YieldsProfile

\* a clip of exactly 15 s just above the floor, five of whose six windows
\* gave an embedding, has been enrolled
C21_Witness ==
    /\ EnrollDone
    /\ enroller.clip.half_seconds = MinClipHalfSeconds
    /\ enroller.clip.rms = NoiseFloor + 1
    /\ enroller.extracted = 5
    /\ enroller.write = "ok"
    /\ YieldsProfile

RECURSIVE Decryptable(_)
Decryptable(records) ==
    IF records = << >> THEN << >>
    ELSE IF Head(records).decrypts
         THEN <<ProfileOf(Head(records))>> \o Decryptable(Tail(records))
         ELSE Decryptable(Tail(records))

\* C23: a profile that fails to decrypt is skipped and is not fatal to the
\* match: the candidate is still compared against every other profile of the
\* family, and the result is the match among those.
C23_CorruptedProfileSkipped ==
    lookup.pc = "done"
        => lookup.result[1] =
              IdentifyEnrolledSpeaker("embedding", Decryptable(lookup.records))

\* ----------------------------------------------------- confidence coercion
\* what the formatting is said to make of a value: 0.6 of a non-numeric value
\* containing "fallback", 0.8 of any other non-numeric value (a string that
\* reads as a number may also count as that number), the clamped value of a
\* number
ClaimedConfidences(v) ==
    CASE v.kind = "number" -> {Clamp(v.value)}
      [] v.kind = "string" /\ ContainsFallback(v.text) -> {600}
      [] v.kind = "string" /\ FloatOf(v.text) # None -> {800, Clamp(FloatOf(v.text)[1])}
      [] OTHER -> {800}

\* C24: every segment returned by the live-diarize handler, the
\* enhanced-live-diarize handler and the finalize pipeline carries a numeric
\* confidence in [0, 1]: 0.6 for a non-numeric value containing "fallback",
\* 0.8 for any other non-numeric value, the clamped value for a number.
C24_ConfidenceCoerced ==
    coercer.pc = "done" =>
        \A i \in 1..Len(coercer.returned) :
            /\ coercer.returned[i].kind = "number"
            /\ coercer.returned[i].value \in 0..1000
            /\ coercer.returned[i].value \in ClaimedConfidences(coercer.confidences[i])

\* ------------------------------------------------- source language of a call
AutoValues == {"auto", "automatic", "detect"}

\* C25: on every path that calls the translation service, a source language
\* of auto, automatic or detect is normalized to no source parameter before
\* the call, and none of the three is ever sent as a source language code.
C25_AutoNeverSent ==
    translator.pc = "done" =>
        /\ translator.source_language \in {Some(v) : v \in AutoValues}
              => translator.sent = None
        /\ translator.sent \notin {Some(v) : v \in AutoValues}

\* ------------------------------------------------- diarization that fails
\* C26: whenever the upload, the transcription request, a status poll, the
\* timeout or the parsing fails, process_audio_with_diarization returns an
\* empty list instead of raising, and finalize_with_diarization then returns
\* a success result holding the alternating-fallback segments built from the
\* provisional transcripts.
C26_DiarizationFailureNotFatal ==
    (diarizer.pc # "idle" /\ diarizer.failed \in DiarizeFailures) =>
        /\ diarizer.returned = Some(<< >>)
        /\ finalizer.pc = "done" =>
              /\ finalizer.result[1].success
              /\ finalizer.result[1].method = "alternating_fallback"
              /\ Len(finalizer.result[1].segments) = Len(diarizer.instant_transcripts)
              /\ \A i \in 1..Len(diarizer.instant_transcripts) :
                    /\ finalizer.result[1].segments[i].speaker = DefaultSpeaker(i)
                    /\ finalizer.result[1].segments[i].method = "alternating_fallback"
                    /\ finalizer.result[1].segments[i].text =
                          Get(diarizer.instant_transcripts[i].text, "")

\* a status poll failed, and finalize returned the fallback of three
\* transcripts
C26_Witness ==
    /\ diarizer.pc = "done"
    /\ diarizer.failed = "status"
    /\ finalizer.pc = "done"
    /\ finalizer.result[1].success
    /\ Len(finalizer.result[1].segments) = MaxTranscripts

\* ------------------------------------------------------ word-level grouping
\* the parse went through _parse_words_to_segments
ParsedWords ==
    /\ parser.pc = "done"
    /\ ~NoText(parser.response)
    /\ SegmentSource(parser.response) = "words"

WordsIn == parser.response.words[1]

WordLabel(word) == ClaimedLabel(Get(word.speaker, "A"))

\* the words of the segments before segment k
RECURSIVE WordsBefore(_, _)
WordsBefore(segs, k) ==
    IF k <= 1 THEN 0 ELSE WordsBefore(segs, k - 1) + Len(segs[k - 1].text)

\* segment k is one run of the input words: the words first..last carry its
\* label and are its text, it starts at the start of the first and ends at
\* the end of the last
IsRunOf(segs, k, words) ==
    LET firstWord == WordsBefore(segs, k) + 1
        lastWord == WordsBefore(segs, k) + Len(segs[k].text)
    IN  /\ firstWord <= lastWord
        /\ lastWord <= Len(words)
        /\ \A i \in firstWord..lastWord :
              /\ WordLabel(words[i]) = segs[k].speaker
              /\ segs[k].text[i - firstWord + 1] = Get(words[i].text, "")
        /\ words[firstWord].start # None
              => IsSecondsOf(segs[k].start_time, words[firstWord].start[1])
        /\ words[lastWord].end # None
              => IsSecondsOf(segs[k].end_time, words[lastWord].end[1])

\* C27: word-level grouping is greedy and lossless: each maximal run of
\* consecutive words with the same mapped label becomes exactly one segment,
\* so adjacent segments have different labels, the words of the segments in
\* output order are the input words in input order, and each segment starts
\* at its first word's start and ends at its last word's end.
C27_GreedyLosslessGrouping ==
    ParsedWords =>
        LET segs == parser.segments
        IN  /\ WordsBefore(segs, Len(segs) + 1) = Len(WordsIn)
            /\ \A k \in 1..Len(segs) : IsRunOf(segs, k, WordsIn)
            /\ \A k \in 1..(Len(segs) - 1) : segs[k].speaker # segs[k + 1].speaker

\* ------------------------------------------------- redaction of a later segment
\* C28: a redaction task only ever redacts the segment it was scheduled for:
\* in every interleaving of add_segment, end_session and redaction tasks, a
\* task that changes a segment changes the one it was created for, and no
\* segment is redacted while its own task is still asleep, that is earlier
\* than 10 s after it was added.
C28_RedactsOwnSegmentOnly ==
    [][\A t \in tasks :
          (tasks' = tasks \ {t} /\ sessions' # sessions)
          => LET hit == Segments(t.session_id)[t.segment_index + 1]
             IN  /\ hit.id = t.seg
                 /\ \A own \in tasks : own.seg = hit.id => now >= own.due]_vars

\* --------------------------------------- segments added during finalization
\* the segments appended while the call was awaiting the summarization
AppendedWhileSummarizing(call) ==
    IF call.pc = "await_journal" THEN Unsummarized(call) ELSE call.joined

\* C29: a segment appended by add_segment while end_session is suspended
\* awaiting the summarization is either part of what was summarized or still
\* in the session's segment list after end_session returns.
C29_NoSegmentDiscarded ==
    [][\A call \in calls :
          (calls' = calls \ {call})
          => \A k \in AppendedWhileSummarizing(call) :
                \/ \E i \in 1..Len(call.handoff) : call.handoff[i] = k
                \/ \E i \in 1..Len(sessions'[call.session_id].speaker_segments) :
                      sessions'[call.session_id].speaker_segments[i].id = k]_vars

\* ------------------------------------------------------ completed sessions
\* C30: every session registered in completed_sessions has status completed,
\* a journal entry, a stored confidence score and an empty segment list; and
\* once a session has completed and its cleanup has run it is no longer
\* registered in active_sessions.
C30_CompletedSessionsAreFinal ==
    /\ \A s \in completed_sessions :
          /\ sessions[s].status = "completed"
          /\ sessions[s].journal_entry # None
          /\ sessions[s].confidence_score # None
          /\ Segments(s) = << >>
    /\ \A s \in completed_sessions :
          sessions[s].raw_data_deleted => s \notin active_sessions
====
